---- MODULE Spec2Model ----
(***************************************************************************)
(* Model of the dsp overlap engine: the Dsp::Signal container              *)
(* (signal.hpp) and convolve / correlate / overlap_kernel (overlap.hpp).   *)
(*                                                                         *)
(* Samples and taps are numbers <<re, im>> with integer parts; a real      *)
(* element has im = 0.  The floating point arithmetic of the code is       *)
(* modelled by exact integer arithmetic; the taps of test_convolve.cpp     *)
(* (0.1, 0.2, 0.3) are held in tenths, so its golden values 1.0, 1.6, 2.2  *)
(* read 10, 16, 22.                                                        *)
(*                                                                         *)
(* A state holds one container `a' (the signal operand), one container     *)
(* `b' (the taps) and a record of the last call made on them.  assert()    *)
(* is modelled as compiled in (no NDEBUG): a failed assertion aborts.      *)
(***************************************************************************)
EXTENDS Integers, Sequences, FiniteSets, TLC

(* ---------------- bounds ---------------- *)
MaxSamples == 5
MaxTaps == 3
MaxCalls == 2
MaxEdits == 1

(* ---------------- program constants ---------------- *)
\* size_t is 64 bits wide in the code; the model keeps the wrap-around of
\* b.size() - 1 with a narrower word so that TLC can compute it.
SizeTMod == 2^16
\* Eigen::Dynamic, the default Size argument of Dsp::Signal
Dynamic == 0 - 1
\* largest element count a std::vector accepts before insert throws
VectorMaxSize == (SizeTMod \div 2) - 1

Kinds == {"fixed", "dynamic", "vector"}
Modes == {"Full", "Valid", "Same"}
SampleRates == {0, 16}
WriteValues == {<<2, 0>>}
Garbage == {<<0, 0>>, <<7, 0>>}

(* ---------------- element arithmetic ---------------- *)
Zero == <<0, 0>>
Add(x, y) == <<x[1] + y[1], x[2] + y[2]>>
Mul(x, y) == <<x[1] * y[1] - x[2] * y[2], x[1] * y[2] + x[2] * y[1]>>
Conj(x) == <<x[1], 0 - x[2]>>

(* ---------------- constructor inputs ---------------- *)
\* the generator functions the tests construct signals from
Generators == {"ramp", "index"}
Generate(g, idx) == IF g = "ramp" THEN <<idx + 1, 0>> ELSE <<idx, 0>>
\* a pre-populated source holding the values of generator g
Source(g) == [i \in 1..MaxSamples |-> Generate(g, i - 1)]

\* a copy loop that reads c[isample + 1]
SignalFromSource_shifted(c, num_samples) ==
    [i \in 1..num_samples |-> IF i + 1 \in DOMAIN c THEN c[i + 1] ELSE Zero]
\* Signal(Init& c, num_samples, sample_rate): data_[isample] = c[isample]
SignalFromSource(c, num_samples) == [i \in 1..num_samples |-> c[i]]
\* Signal(std::function f, num_samples, sample_rate): data_[isample] = f(isample)
SignalFromFunction(g, num_samples) == [i \in 1..num_samples |-> Generate(g, i - 1)]

(* ---------------- taps ---------------- *)
\* tap j (from 0) of the two coefficient families the model draws taps from:
\* "test" holds the taps of test_convolve.cpp in tenths (0.1, 0.2, 0.3, ...),
\* "mixed" is an asymmetric family with an imaginary part when complex
TapFamilies == {"test", "mixed"}
Tap(family, type, j) ==
    IF type = "complex"
    THEN (IF family = "test" THEN <<j + 1, 1>> ELSE <<j % 2, 2 - j>>)
    ELSE (IF family = "test" THEN <<j + 1, 0>> ELSE <<2 - (j % 2), 0>>)
TapChoices(type) ==
    {[j \in 1..k |-> Tap(f, type, j - 1)] : f \in TapFamilies, k \in 0..MaxTaps}
TestTaps == [j \in 1..3 |-> Tap("test", "real", j - 1)]

VARIABLES
    kind,         \* container type of a: Signal<T,Size>, Signal<T>, std::vector<T>
    Size,         \* the Size template argument of a Signal (Dynamic if not fixed)
    a_type,       \* value_type of a: "real" or "complex"
    b_type,       \* value_type of b
    phase,        \* "unconstructed", "live", "aborted"
    data_,        \* samples of a
    sample_rate_, \* sample rate of a
    twin,         \* the signal built by the other constructor from equal input
    b,            \* the taps
    op,           \* last operation
    mode,         \* its OverlapMode
    outcome,      \* how it ended
    first,        \* returned pair, as offsets from a.begin()
    second,
    pre_data,     \* samples of a before the last operation
    pre_b,        \* taps before the last operation
    arg,          \* numeric argument of the last operation (num_samples)
    oob,          \* an access outside [0, size()) has happened
    calls,        \* overlap calls made so far
    edits,        \* indexed writes and resizes made so far
    stale,        \* a sweep has read a sample it had already overwritten
    b0,           \* the taps as the caller first held them
    history       \* the overlap calls so far, as <<op, mode, outcome>>

vars == <<kind, Size, a_type, b_type, phase, data_, sample_rate_, twin, b,
          op, mode, outcome, first, second, pre_data, pre_b, arg, oob,
          calls, edits, stale, b0, history>>

(* ---------------- overlap.hpp ---------------- *)
\* the delay with the "- 1" forgotten
filter_delay_length_off(taps) == Len(taps) % SizeTMod
\* auto filter_delay_length = b.size() - 1;   (size_t arithmetic)
filter_delay_length(taps) == (Len(taps) - 1) % SizeTMod
\* conversion of a size_t to the iterators' signed difference_type
ToDifference(n) == IF n >= SizeTMod \div 2 THEN n - SizeTMod ELSE n

\* a traversal that is reverse whatever iterator kind was passed
At_reverse(s, p, reverse) == Len(s) - p
\* a traversal that is forward whatever iterator kind was passed
At_forward(s, p, reverse) == p + 1
\* the element an iterator p steps from the start of the traversal refers to
At(s, p, reverse) == IF reverse THEN Len(s) - p ELSE p + 1
Read(s, i) == IF i \in DOMAIN s THEN s[i] ELSE Zero

\* a window cursor that steps against the traversal (*sig_val--)
WindowPos_back(p, j) == p - j
\* auto sig_val = sig; ... *sig_val++ : the position read for tap j (from 0)
WindowPos(p, j) == p + j

\* inner loop of overlap_kernel: temp += *filter_val * *sig_val++
RECURSIVE Accumulate(_, _, _, _, _, _)
Accumulate(s, filter, p, j, reverse, temp) ==
    IF j > Len(filter) THEN temp
    ELSE Accumulate(s, filter, p, j + 1, reverse,
                    Add(temp, Mul(filter[j],
                                  Read(s, At(s, WindowPos(p, j - 1), reverse)))))

\* outer loop of overlap_kernel over positions p .. count-1, writing in place
RECURSIVE overlap_kernel(_, _, _, _, _)
overlap_kernel(s, filter, p, count, reverse) ==
    IF p >= count THEN s
    ELSE LET temp == Accumulate(s, filter, p, 1, reverse, Zero)
             i == At(s, p, reverse)
             t == IF i \in DOMAIN s THEN [s EXCEPT ![i] = temp] ELSE s
         IN overlap_kernel(t, filter, p + 1, count, reverse)

\* the dereferences of overlap_kernel in program order: for each position the
\* reads of its window, then the write of the accumulator
RECURSIVE KernelEvents(_, _, _, _, _)
KernelEvents(s, filter, p, count, reverse) ==
    IF p >= count THEN <<>>
    ELSE [j \in 1..Len(filter) |->
             [acc |-> "read", at |-> At(s, WindowPos(p, j - 1), reverse)]]
         \o <<[acc |-> "write", at |-> At(s, p, reverse)]>>
         \o KernelEvents(s, filter, p + 1, count, reverse)

\* does the sweep read an element after it has written to it
KernelStale(s, filter, count, reverse) ==
    LET ev == KernelEvents(s, filter, 0, count, reverse)
    IN \E e1, e2 \in DOMAIN ev :
          /\ e1 < e2
          /\ ev[e1].acc = "write" /\ ev[e2].acc = "read"
          /\ ev[e1].at = ev[e2].at

\* the comparison written as the doc comment words it, len(a) >= len(b)
Validate_ge(s, taps) == Len(s) >= Len(taps)
\* assert(a.size() > b.size())
Validate(s, taps) == Len(s) > Len(taps)

\* a sweep that runs to the end of the container (sig_end = a.rend() / a.end())
SweepCount_full(s, taps) == Len(s)
\* number of positions between sig_start and sig_end = start + size - delay
SweepCount(s, taps) == Len(s) - ToDifference(filter_delay_length(taps))

\* does the sweep touch an element outside the container
KernelOob(s, taps) ==
    LET count == SweepCount(s, taps)
    IN \/ count < 0
       \/ \E p \in 0..(count - 1) :
            \/ p >= Len(s)
            \/ Len(taps) > 0 /\ p + Len(taps) - 1 >= Len(s)

Zeros(n) == [i \in 1..n |-> Zero]

\* TempMeta::insert(a, pos, count, 0): "ok", or the exception it throws
InsertFault(k, s, count) ==
    IF k # "vector" THEN "runtime_error"
    ELSE IF Len(s) + count > VectorMaxSize THEN "length_error"
    ELSE "ok"
InsertFront(s, count) == Zeros(count) \o s
InsertBack(s, count) == s \o Zeros(count)

\* a switch whose Same case falls into the Valid case and pads nothing
Pad_SameUnpadded(k, s, m, delay) ==
    IF m \in {"Valid", "Same"} THEN [fault |-> "ok", data |-> s]
    ELSE IF InsertFault(k, s, delay) # "ok"
         THEN [fault |-> InsertFault(k, s, delay), data |-> s]
    ELSE IF InsertFault(k, InsertFront(s, delay), delay) # "ok"
         THEN [fault |-> InsertFault(k, InsertFront(s, delay), delay),
               data |-> InsertFront(s, delay)]
    ELSE [fault |-> "ok", data |-> InsertBack(InsertFront(s, delay), delay)]
\* a switch that grows the container by hand before the insert that throws
Pad_GrowsFirst(k, s, m, delay) ==
    IF m = "Valid" THEN [fault |-> "ok", data |-> s]
    ELSE IF InsertFault(k, s, delay) # "ok"
         THEN [fault |-> InsertFault(k, s, delay), data |-> InsertFront(s, delay)]
    ELSE IF m = "Same" THEN [fault |-> "ok", data |-> InsertFront(s, delay)]
    ELSE [fault |-> "ok", data |-> InsertBack(InsertFront(s, delay), delay)]
\* the switch (mode) of convolve / correlate: [fault, data]
Pad(k, s, m, delay) ==
    IF m = "Valid" THEN [fault |-> "ok", data |-> s]
    ELSE IF InsertFault(k, s, delay) # "ok"
         THEN [fault |-> InsertFault(k, s, delay), data |-> s]
    ELSE IF m = "Same" THEN [fault |-> "ok", data |-> InsertFront(s, delay)]
    ELSE IF InsertFault(k, InsertFront(s, delay), delay) # "ok"
         THEN [fault |-> InsertFault(k, InsertFront(s, delay), delay),
               data |-> InsertFront(s, delay)]
    ELSE [fault |-> "ok", data |-> InsertBack(InsertFront(s, delay), delay)]

\* return std::make_pair(a.begin() + filter_delay_length, a.end());
ConvolveRange(s, delay) == [first |-> ToDifference(delay), second |-> Len(s)]
\* return std::make_pair(a.begin(), a.end() - filter_delay_length);
CorrelateRange(s, delay) == [first |-> 0, second |-> Len(s) - ToDifference(delay)]

\* a loop that forces the imaginary parts negative instead of flipping them
Conjugate_clamp(taps) ==
    [j \in DOMAIN taps |->
        <<taps[j][1], IF taps[j][2] > 0 THEN 0 - taps[j][2] ELSE taps[j][2]>>]
\* a loop that copies each tap onto itself
Conjugate_none(taps) == taps
\* for (auto &val : b) val = std::conj(val);
Conjugate(taps) == [j \in DOMAIN taps |-> Conj(taps[j])]

(* ---------------- initial state ---------------- *)
Init ==
    /\ kind \in Kinds
    /\ Size \in (IF kind = "fixed" THEN 1..MaxSamples ELSE {Dynamic})
    /\ b_type \in {"real", "complex"}
    \* static_assert(sizeof(A::value_type) >= sizeof(B::value_type)):
    \* complex taps need a complex signal
    /\ a_type = b_type
    /\ phase = "unconstructed"
    /\ data_ = <<>>
    /\ sample_rate_ = 0
    /\ twin = <<>>
    /\ b \in TapChoices(b_type)
    /\ op = "none"
    /\ mode = "Valid"
    /\ outcome = "none"
    /\ first = 0
    /\ second = 0
    /\ pre_data = <<>>
    /\ pre_b = b
    /\ arg = 0
    /\ oob = FALSE
    /\ calls = 0
    /\ edits = 0
    /\ stale = FALSE
    /\ b0 = b
    /\ history = <<>>

(* ---------------- signal.hpp ---------------- *)
\* a backing that takes whatever length it is asked for
FitsBacking_any(k, sz, num_samples) == TRUE
\* data_(num_samples): a fixed-size Eigen vector holds exactly Size samples
FitsBacking(k, sz, num_samples) == ~(k = "fixed" /\ num_samples # sz)

\* The two constructors.  data_(num_samples) on a fixed-size Eigen vector
\* asserts num_samples == Size; std::vector takes any length.
Construct(ctor, g, num_samples, rate) ==
    /\ phase = "unconstructed"
    /\ op' = (IF ctor = "source" THEN "construct_source" ELSE "construct_function")
    /\ arg' = num_samples
    /\ pre_data' = data_
    /\ pre_b' = b
    /\ IF ~FitsBacking(kind, Size, num_samples)
       THEN /\ phase' = "aborted"
            /\ outcome' = "assert_fail"
            /\ UNCHANGED <<data_, sample_rate_, twin>>
       ELSE /\ phase' = "live"
            /\ outcome' = "returned"
            /\ sample_rate_' = rate
            /\ data_' = (IF ctor = "source"
                         THEN SignalFromSource(Source(g), num_samples)
                         ELSE SignalFromFunction(g, num_samples))
            /\ twin' = (IF ctor = "source"
                        THEN SignalFromFunction(g, num_samples)
                        ELSE SignalFromSource(Source(g), num_samples))
    /\ UNCHANGED <<kind, Size, a_type, b_type, b, mode, first, second, oob,
                   calls, edits, stale, b0, history>>

\* value_type& operator[](idx) used for assignment, idx in [0, size())
IndexedWrite(idx, v) ==
    /\ phase = "live"
    /\ edits < MaxEdits
    /\ idx \in 0..(Len(data_) - 1)
    /\ op' = "write"
    /\ arg' = idx
    /\ outcome' = "returned"
    /\ pre_data' = data_
    /\ pre_b' = b
    /\ data_' = [data_ EXCEPT ![idx + 1] = v]
    /\ edits' = edits + 1
    /\ UNCHANGED <<kind, Size, a_type, b_type, phase, sample_rate_, twin, b,
                   mode, first, second, oob, calls, stale, b0, history>>

\* conservativeResize keeps the leading samples; new ones are uninitialised
Resized(s, num_samples, fill) ==
    [i \in 1..num_samples |-> IF i <= Len(s) THEN s[i] ELSE fill]

\* a resize without the compile-time test
CanResize_always(sz) == TRUE
\* if constexpr (Size == Eigen::Dynamic)
CanResize(sz) == sz = Dynamic

\* void Signal::resize(num_samples)
resize(num_samples) ==
    /\ phase = "live"
    /\ kind # "vector"
    /\ edits < MaxEdits
    /\ op' = "resize"
    /\ arg' = num_samples
    /\ pre_data' = data_
    /\ pre_b' = b
    /\ edits' = edits + 1
    /\ IF CanResize(Size)
       THEN /\ outcome' = "returned"
            /\ \E fill \in Garbage :
                 data_' = Resized(data_, num_samples, fill)
       ELSE /\ outcome' = "runtime_error"
            /\ data_' = data_
    /\ UNCHANGED <<kind, Size, a_type, b_type, phase, sample_rate_, twin, b,
                   mode, first, second, oob, calls, stale, b0, history>>

(* ---------------- overlap.hpp entry points ---------------- *)
\* auto convolve(ContainerA& a, const ContainerB& b, const OverlapMode& mode)
convolve(m) ==
    /\ phase = "live"
    /\ calls < MaxCalls
    /\ op' = "convolve"
    /\ mode' = m
    /\ arg' = 0
    /\ pre_data' = data_
    /\ pre_b' = b
    /\ calls' = calls + 1
    /\ IF ~Validate(data_, b)
       THEN \* the assertion fails and the process aborts
            /\ phase' = "aborted"
            /\ outcome' = "assert_fail"
            /\ UNCHANGED <<data_, b, first, second, oob, stale>>
       ELSE LET delay == filter_delay_length(b)
                padded == Pad(kind, data_, m, delay)
            IN /\ phase' = phase
               /\ b' = b
               /\ IF padded.fault # "ok"
                  THEN /\ outcome' = padded.fault
                       /\ data_' = padded.data
                       /\ UNCHANGED <<first, second, oob, stale>>
                  ELSE \* overlap_kernel(a.rbegin(), a.rend() - delay, ..., a.rbegin())
                       /\ outcome' = "returned"
                       /\ data_' = overlap_kernel(padded.data, b, 0,
                                        SweepCount(padded.data, b), TRUE)
                       /\ oob' = (oob \/ KernelOob(padded.data, b))
                       /\ stale' = (stale \/ KernelStale(padded.data, b,
                                        SweepCount(padded.data, b), TRUE))
                       /\ first' = ConvolveRange(padded.data, delay).first
                       /\ second' = ConvolveRange(padded.data, delay).second
    /\ history' = Append(history, <<op', mode', outcome'>>)
    /\ UNCHANGED <<kind, Size, a_type, b_type, sample_rate_, twin, edits, b0>>

\* auto correlate(ContainerA& a, const ContainerB& b, const OverlapMode& mode)
correlate(m) ==
    /\ phase = "live"
    /\ calls < MaxCalls
    /\ op' = "correlate"
    /\ mode' = m
    /\ arg' = 0
    /\ pre_data' = data_
    /\ pre_b' = b
    /\ calls' = calls + 1
    /\ IF ~Validate(data_, b)
       THEN \* the assertion fails and the process aborts
            /\ phase' = "aborted"
            /\ outcome' = "assert_fail"
            /\ UNCHANGED <<data_, b, first, second, oob, stale>>
       ELSE LET taps == IF b_type = "complex" THEN Conjugate(b) ELSE b
                delay == filter_delay_length(taps)
                padded == Pad(kind, data_, m, delay)
            IN /\ phase' = phase
               /\ b' = taps
               /\ IF padded.fault # "ok"
                  THEN /\ outcome' = padded.fault
                       /\ data_' = padded.data
                       /\ UNCHANGED <<first, second, oob, stale>>
                  ELSE \* overlap_kernel(a.begin(), a.end() - delay, ..., a.begin())
                       /\ outcome' = "returned"
                       /\ data_' = overlap_kernel(padded.data, taps, 0,
                                        SweepCount(padded.data, taps), FALSE)
                       /\ oob' = (oob \/ KernelOob(padded.data, taps))
                       /\ stale' = (stale \/ KernelStale(padded.data, taps,
                                        SweepCount(padded.data, taps), FALSE))
                       /\ first' = CorrelateRange(padded.data, delay).first
                       /\ second' = CorrelateRange(padded.data, delay).second
    /\ history' = Append(history, <<op', mode', outcome'>>)
    /\ UNCHANGED <<kind, Size, a_type, b_type, sample_rate_, twin, edits, b0>>

\* after a write outside the container the process may abort at any later point
Crash ==
    /\ phase = "live"
    /\ oob
    /\ phase' = "aborted"
    /\ UNCHANGED <<kind, Size, a_type, b_type, data_, sample_rate_, twin, b,
                   op, mode, outcome, first, second, pre_data, pre_b, arg,
                   oob, calls, edits, stale, b0, history>>

\* the overlap engine on freshly constructed signals
Next ==
    \/ \E ctor \in {"source", "function"}, g \in Generators,
          n \in 0..MaxSamples, rate \in SampleRates : Construct(ctor, g, n, rate)
    \/ \E m \in Modes : convolve(m)
    \/ \E m \in Modes : correlate(m)
    \/ Crash

Spec == Init /\ [][Next]_vars

\* the life of one container: construction, indexed writes and resizes in any
\* order, with one overlap call anywhere among them
NextSignal ==
    \/ \E ctor \in {"source", "function"}, g \in Generators,
          n \in 0..MaxSamples, rate \in SampleRates : Construct(ctor, g, n, rate)
    \/ \E idx \in 0..(MaxSamples - 1), v \in WriteValues : IndexedWrite(idx, v)
    \/ \E n \in 0..MaxSamples : resize(n)
    \/ \E m \in Modes : calls = 0 /\ convolve(m)
    \/ \E m \in Modes : calls = 0 /\ correlate(m)
    \/ Crash

SpecSignal == Init /\ [][NextSignal]_vars

(* ---------------- vocabulary of the properties ---------------- *)
OverlapCall == op \in {"convolve", "correlate"}
\* N and M of the last call: the sizes of signal and taps when it was made
N == Len(pre_data)
M == Len(pre_b)
RangeLength == second - first
\* element k (from 0) of the returned range, when it lies inside the container
InRange(k) == first + k + 1 \in DOMAIN data_
Element(k) == data_[first + k + 1]

\* sum over j = 0..M-1 of T[j] * S[base - j], S and T indexed from 0
RECURSIVE ConvolutionSum(_, _, _, _)
ConvolutionSum(T, S, base, j) ==
    IF j >= Len(T) THEN Zero
    ELSE Add(Mul(T[j + 1], S[base - j + 1]), ConvolutionSum(T, S, base, j + 1))

\* sum over j = 0..M-1 of T[j] * S[base + j], S and T indexed from 0
RECURSIVE CorrelationSum(_, _, _, _)
CorrelationSum(T, S, base, j) ==
    IF j >= Len(T) THEN Zero
    ELSE Add(Mul(T[j + 1], S[base + j + 1]), CorrelationSum(T, S, base, j + 1))

\* the signed delay of the last call and the signal as its kernel received it
\* (b holds the taps the kernel used: correlate conjugates before it pads)
Delay == Len(b) - 1
PaddedCopy ==
    IF mode = "Valid" THEN pre_data
    ELSE IF mode = "Same" THEN Zeros(Delay) \o pre_data
    ELSE Zeros(Delay) \o pre_data \o Zeros(Delay)
\* the sliding sums of the last call taken from that copy, none written back
OutOfPlace ==
    [i \in 1..Len(PaddedCopy) |->
        IF op = "convolve"
        THEN (IF i - 1 >= Delay
              THEN ConvolutionSum(b, PaddedCopy, i - 1, 0) ELSE PaddedCopy[i])
        ELSE (IF i - 1 <= Len(PaddedCopy) - 1 - Delay
              THEN CorrelationSum(b, PaddedCopy, i - 1, 0) ELSE PaddedCopy[i])]

\* the complex conjugates of a sequence of taps
Conjugated(T) == [j \in DOMAIN T |-> <<T[j][1], 0 - T[j][2]>>]
\* the samples of the container outside the returned range keep their values
OutsideRangeKept ==
    \A i \in 1..N : (i - 1 < first \/ i - 1 >= second) => data_[i] = pre_data[i]
\* the returned range of a Valid call: [M-1, N) for convolve, [0, N-(M-1)) for
\* correlate
ValidRange ==
    IF op = "convolve" THEN first = M - 1 /\ second = N
    ELSE first = 0 /\ second = N - (M - 1)
\* the correlate calls made so far
Correlates == {i \in DOMAIN history : history[i][1] = "correlate"}

TypeOK ==
    /\ kind \in Kinds
    /\ phase \in {"unconstructed", "live", "aborted"}
    /\ outcome \in {"none", "returned", "assert_fail", "runtime_error", "length_error"}
    /\ mode \in Modes

(* ======================= properties ======================= *)

\* C1: a Valid-mode convolve or correlate of a signal longer than the taps
\* returns, and the returned range [first, second) holds exactly
\* size(S) - size(T) + 1 elements.
ValidRangeLength ==
    (OverlapCall /\ mode = "Valid" /\ N > M) =>
        (outcome = "returned" /\ RangeLength = N - M + 1)

ValidRangeLengthWitness ==
    /\ op = "correlate" /\ mode = "Valid" /\ outcome = "returned"
    /\ N = 5 /\ M = 3 /\ RangeLength = 3

\* C2: after convolve(S, T, Valid), element k of the returned range equals
\* the sum over j of T[j] * S_original[k + M - 1 - j], for every k in 0..N-M
\* that lies in the container; the signal 1..5 with taps 0.1, 0.2, 0.3
\* (in tenths) gives 1.0, 1.6, 2.2 (in tenths).
ValidConvolutionValues ==
    (op = "convolve" /\ mode = "Valid" /\ outcome = "returned") =>
        /\ \A k \in 0..(N - M) :
              InRange(k) => Element(k) = ConvolutionSum(pre_b, pre_data, k + M - 1, 0)
        /\ (pre_data = SignalFromFunction("ramp", 5) /\ pre_b = TestTaps) =>
              /\ first = 2 /\ second = 5
              /\ <<Element(0), Element(1), Element(2)>>
                   = <<<<10, 0>>, <<16, 0>>, <<22, 0>>>>

ValidConvolutionValuesWitness ==
    /\ op = "convolve" /\ mode = "Valid" /\ outcome = "returned"
    /\ pre_data = SignalFromFunction("ramp", 5) /\ pre_b = TestTaps
    /\ data_[3] = <<10, 0>> /\ data_[5] = <<22, 0>>

NoInsert == kind # "vector"
Padding == mode \in {"Full", "Same"}

GrowablePadding ==
    (kind = "vector" /\ op = "convolve" /\ Padding /\ N > M) =>
        /\ outcome = "returned"
        /\ first = M - 1
        /\ \A i \in 1..(M - 1) : data_[i] = Zero
        /\ mode = "Full" => (Len(data_) = N + 2 * (M - 1) /\ RangeLength = N + M - 1)
        /\ mode = "Same" => (Len(data_) = N + (M - 1) /\ RangeLength = N)

\* the same statement for taps that hold at least one coefficient
GrowablePaddingNonEmptyTaps == (M >= 1) => GrowablePadding

TapsFrame ==
    (OverlapCall /\ outcome # "assert_fail") =>
        IF op = "correlate" /\ b_type = "complex"
        THEN /\ Len(b) = M
             /\ \A j \in 1..M : b[j] = <<pre_b[j][1], 0 - pre_b[j][2]>>
        ELSE b = pre_b

TapsFrameWitness ==
    /\ op = "correlate" /\ b_type = "complex" /\ outcome = "returned"
    /\ M >= 2 /\ b # pre_b

\* C8: resize on a fixed-size Signal throws for every new size and leaves the
\* samples alone; on a dynamic Signal it returns with size() == new size.
ResizeContract ==
    (op = "resize") =>
        IF kind = "fixed"
        THEN outcome = "runtime_error" /\ data_ = pre_data
        ELSE outcome = "returned" /\ Len(data_) = arg

ResizeContractWitness ==
    /\ op = "resize" /\ kind = "fixed" /\ arg = Len(pre_data)
    /\ arg >= 2 /\ outcome = "runtime_error"

\* C9: a Signal built from generator f over [0, n) and a Signal built from a
\* source c with c[i] = f(i) both have size n and hold c[i] at every i < n,
\* on fixed and on growable backings.
ConstructorsAgree ==
    (op \in {"construct_source", "construct_function"} /\ outcome = "returned") =>
        /\ Len(data_) = arg
        /\ Len(twin) = arg
        /\ \E g \in Generators :
              \A i \in 1..arg : data_[i] = Source(g)[i] /\ twin[i] = Source(g)[i]

ConstructorsAgreeWitness ==
    /\ op = "construct_function" /\ kind = "fixed" /\ outcome = "returned"
    /\ arg = 4 /\ data_ = twin /\ data_[4] = <<4, 0>>

\* C10: a fixed-size Signal never holds more samples than its Size, a
\* construction asking for more than Size fails, and no step changes Size
\* or the kind of backing.
FixedWithinCapacity ==
    (kind = "fixed") =>
        /\ Len(data_) <= Size
        /\ (op \in {"construct_source", "construct_function"} /\ arg > Size) =>
              (outcome = "assert_fail" /\ phase = "aborted")
FixedCapacityKept ==
    [](FixedWithinCapacity) /\ [][Size' = Size /\ kind' = kind]_vars

FixedCapacityKeptWitness ==
    /\ kind = "fixed" /\ op = "resize" /\ calls = 1 /\ edits = 1
    /\ Size = 4 /\ Len(data_) = Size

\* C11 as stated: every constructed Signal has sample_rate() > 0.
SampleRatePositive == (phase = "live") => sample_rate_ > 0

\* the part of C11 the code keeps: no step after construction changes the rate
SampleRateKept == [][phase = "live" => sample_rate_' = sample_rate_]_vars

\* C12: no sweep reads a sample after writing a kernel output to it, and the
\* signal an overlap call leaves equals the sliding sums taken from an
\* unmodified copy of the padded signal.
InPlaceIsSafe ==
    /\ ~stale
    /\ (OverlapCall /\ outcome = "returned") => data_ = OutOfPlace

InPlaceIsSafeWitness ==
    /\ op = "convolve" /\ kind = "vector" /\ mode = "Full"
    /\ outcome = "returned" /\ M = 3 /\ N = 5
    /\ ~stale /\ data_ = OutOfPlace /\ data_ # PaddedCopy

ValidCorrelationValues ==
    (op = "correlate" /\ mode = "Valid" /\ outcome = "returned") =>
        LET t == IF b_type = "complex" THEN Conjugated(pre_b) ELSE pre_b
        IN /\ first = 0
           /\ second = N - (M - 1)
           /\ \A k \in 0..(N - M) :
                 InRange(k) => Element(k) = CorrelationSum(t, pre_data, k, 0)

ValidCorrelationValuesWitness ==
    /\ op = "correlate" /\ mode = "Valid" /\ outcome = "returned"
    /\ b_type = "complex" /\ N = 4 /\ M = 2 /\ pre_b[1][2] # 0
    /\ Element(2) = CorrelationSum(Conjugated(pre_b), pre_data, 2, 0)
    /\ Element(2) # CorrelationSum(pre_b, pre_data, 2, 0)

\* C15 as stated: a correlate on complex taps that fails because the signal
\* cannot be padded leaves the taps with their values from before the call.
FailedCorrelateKeepsTaps ==
    (op = "correlate" /\ b_type = "complex"
        /\ outcome \in {"runtime_error", "length_error"}) => b = pre_b

\* C16 as stated: in every overlap call that passes validation the delay
\* b.size() - 1, as the unsigned arithmetic computes it, lies in
\* [0, size() - 1], and no sample index the sweep touches lies outside
\* [0, size()).
DelayWithinSignal ==
    (OverlapCall /\ N > M) =>
        /\ filter_delay_length(pre_b) \in 0..(N - 1)
        /\ ~oob

\* the part of C16 the code keeps: with at least one tap the delay lies in
\* [0, size() - 1] and the sweep stays inside the container
DelayWithinSignalNonEmptyTaps ==
    (OverlapCall /\ N > M /\ M >= 1) =>
        /\ filter_delay_length(pre_b) \in 0..(N - 1)
        /\ ~oob

\* C17: while every correlate call made on the complex taps has returned,
\* the taps are the conjugates of their first values after an odd number of
\* such calls and equal their first values after an even number; after two
\* calls they are back at the start.
ConjugationParity ==
    (b_type = "complex" /\ \A i \in Correlates : history[i][3] = "returned") =>
        b = (IF Cardinality(Correlates) % 2 = 1 THEN Conjugated(b0) ELSE b0)

ConjugationParityWitness ==
    /\ b_type = "complex" /\ Cardinality(Correlates) = 2
    /\ \A i \in Correlates : history[i][3] = "returned"
    /\ Len(b) >= 2 /\ b = b0 /\ b # Conjugated(b0) /\ pre_b = Conjugated(b0)

====
